---- MODULE Spec2Model ----
(***************************************************************************)
(* Model of the election-results data model of golos (src/tik_data.py):    *)
(* candidate resolution, polling-station table construction, aggregation   *)
(* of child commissions and the dict serialization.                        *)
(*                                                                         *)
(* Texts are sequences of Unicode code points, so that the regular         *)
(* expression, strip(), lower(), replace() and the substring tests are     *)
(* computed character by character as Python computes them.                *)
(***************************************************************************)
EXTENDS Integers, Sequences, FiniteSets, TLC

VARIABLES
    candidate_text,   \* argument of the last parse_candidate_by_text call
    parsed,           \* its result: a Candidate, a ValueError, or NoCall
    raw_args,         \* arguments of the last TikData.from_raw_data call
    tik,              \* its result: a TikData, an error, or NoCall
    datas,            \* the list of child tables handed to build_root_tik
    root_args,        \* arguments of the last build_root_tik call
    root,             \* its result: TikData, RootHumanTikData, error, NoCall
    tree,             \* the tree last serialized with to_dict
    d,                \* the record to_dict produced
    loaded,           \* result of load_root_tik_data_from_dict(d)
    container,        \* the MunicipalVotes record being filled, or NoCall
    init_args,        \* the arguments its constructor was called with
    added,            \* the trees handed to add_datum since, in call order
    vote_infos,       \* the vote pages VotesListParser.parse_meta listed
    dry,              \* the --dry option of main
    position,         \* vote page and race page the scraper is at
    result,           \* the records VotesListParser.parse has collected
    status,           \* "parsing", "saving", "done" or "raised"
    files,            \* the files main has written: file name -> dict
    log               \* every RootTikPageParser.parse call and its outcome

candVars   == <<candidate_text, parsed>>
tikVars    == <<raw_args, tik, datas, root_args, root>>
dictVars   == <<tree, d, loaded>>
votesVars  == <<container, init_args, added>>
scrapeVars == <<vote_infos, dry, position, result, status, files, log>>
vars       == <<candidate_text, parsed, raw_args, tik, datas, root_args,
                root, tree, d, loaded, container, init_args, added,
                vote_infos, dry, position, result, status, files, log>>

\* "no call made yet" marker of the result variables
NoCall == [kind |-> "NoCall"]

\* An exception escaping a call
Raised(name) == [kind |-> "Error", error |-> name]

IsError(r) == r.kind = "Error"

\* no MunicipalVotes record has been constructed
NoVotes ==
    /\ container = NoCall
    /\ init_args = NoCall
    /\ added = <<>>

\* the scraper has not been started
NoScrape ==
    /\ vote_infos = <<>>
    /\ dry = FALSE
    /\ position = NoCall
    /\ result = <<>>
    /\ status = "idle"
    /\ files = {}
    /\ log = <<>>

(***************************************************************************)
(* Bounds of the model                                                     *)
(***************************************************************************)
\* longest run of name tokens offered to the classifier (the pattern stops at 6)
MaxTokens == 7
\* polling-station numbers are drawn from 1..MaxUik
MaxUik == 3
\* most stations on one commission page
MaxUiks == 2
\* most child commissions under one root commission
MaxChildren == 3
\* most trees a votes record is constructed with
MaxInitial == 2
\* most add_datum calls on one votes record
MaxAdds == 3
\* most vote pages on the votes list
MaxPages == 2
\* most race pages linked from one vote page
MaxRaces == 2

(***************************************************************************)
(* Characters                                                              *)
(***************************************************************************)
SPACE      == 32
HYPHEN     == 45
UNDERSCORE == 95

\* unicode.isspace() on the characters texts are built from
IsSpace(c) == c \in {9, 10, 11, 12, 13, 28, 29, 30, 31, 32, 133, 160}

\* unicode.lower() of one character: A-Z, the Cyrillic capitals
\* U+0410..U+042F and U+0401 (IO)
LowerChar(c) ==
    IF c >= 65 /\ c <= 90 THEN c + 32
    ELSE IF c >= 1040 /\ c <= 1071 THEN c + 32
    ELSE IF c = 1025 THEN 1105
    ELSE c

lower(s) == [i \in 1..Len(s) |-> LowerChar(s[i])]

\* Python's "sub in s" on unicode strings
In(sub, s) ==
    \E i \in 0..(Len(s) - Len(sub)) : SubSeq(s, i + 1, i + Len(sub)) = sub

RECURSIVE lstrip(_)
lstrip(s) ==
    IF s # <<>> /\ IsSpace(Head(s)) THEN lstrip(Tail(s)) ELSE s

RECURSIVE rstrip(_)
rstrip(s) ==
    IF s # <<>> /\ IsSpace(s[Len(s)]) THEN rstrip(SubSeq(s, 1, Len(s) - 1))
    ELSE s

strip(s) == rstrip(lstrip(s))

\* text.replace(' ', '_')
replace_space(s) ==
    [i \in 1..Len(s) |-> IF s[i] = SPACE THEN UNDERSCORE ELSE s[i]]

(***************************************************************************)
(* Candidate and the party registry                                        *)
(***************************************************************************)
Candidate(id, title, alternative_titles, is_human) ==
    [kind |-> "Candidate", id |-> id, title |-> title,
     alternative_titles |-> alternative_titles, is_human |-> is_human]

\* Candidate.__eq__ compares the ids only
CandidateEq(a, b) == a.id = b.id

AVAILABLE_PARTIES == <<
    \* SpravRos: 'Справедливая Россия'
    Candidate(<<83, 112, 114, 97, 118, 82, 111, 115>>,
              <<1057, 1087, 1088, 1072, 1074, 1077, 1076, 1083, 1080, 1074,
                1072, 1103, 32, 1056, 1086, 1089, 1089, 1080, 1103>>,
              <<>>, FALSE),
    \* ER: 'Единая Россия'
    Candidate(<<69, 82>>,
              <<1045, 1076, 1080, 1085, 1072, 1103, 32, 1056, 1086, 1089,
                1089, 1080, 1103>>,
              <<>>, FALSE),
    \* KPRF: 'КПРФ', ['Коммунистическая партия российской федерации']
    Candidate(<<75, 80, 82, 70>>,
              <<1050, 1055, 1056, 1060>>,
              << <<1050, 1086, 1084, 1084, 1091, 1085, 1080, 1089, 1090, 1080,
                   1095, 1077, 1089, 1082, 1072, 1103, 32, 1087, 1072, 1088,
                   1090, 1080, 1103, 32, 1088, 1086, 1089, 1089, 1080, 1081,
                   1089, 1082, 1086, 1081, 32, 1092, 1077, 1076, 1077, 1088,
                   1072, 1094, 1080, 1080>> >>, FALSE),
    \* KomRos: 'Коммунисты России'
    Candidate(<<75, 111, 109, 82, 111, 115>>,
              <<1050, 1086, 1084, 1084, 1091, 1085, 1080, 1089, 1090, 1099,
                32, 1056, 1086, 1089, 1089, 1080, 1080>>,
              <<>>, FALSE),
    \* Pens: 'Партия пенсионеров'
    Candidate(<<80, 101, 110, 115>>,
              <<1055, 1072, 1088, 1090, 1080, 1103, 32, 1087, 1077, 1085,
                1089, 1080, 1086, 1085, 1077, 1088, 1086, 1074>>,
              <<>>, FALSE),
    \* Rodina: 'Родина'
    Candidate(<<82, 111, 100, 105, 110, 97>>,
              <<1056, 1086, 1076, 1080, 1085, 1072>>,
              <<>>, FALSE),
    \* LDPR: 'ЛДПР', ['Либерально-демократическая партия россии']
    Candidate(<<76, 68, 80, 82>>,
              <<1051, 1044, 1055, 1056>>,
              << <<1051, 1080, 1073, 1077, 1088, 1072, 1083, 1100, 1085, 1086,
                   45, 1076, 1077, 1084, 1086, 1082, 1088, 1072, 1090, 1080,
                   1095, 1077, 1089, 1082, 1072, 1103, 32, 1087, 1072, 1088,
                   1090, 1080, 1103, 32, 1088, 1086, 1089, 1089, 1080,
                   1080>> >>, FALSE),
    \* Yabloko: 'Яблоко'
    Candidate(<<89, 97, 98, 108, 111, 107, 111>>,
              <<1071, 1073, 1083, 1086, 1082, 1086>>,
              <<>>, FALSE),
    \* Zelenye: 'Зелёные', ['Зеленые']
    Candidate(<<90, 101, 108, 101, 110, 121, 101>>,
              <<1047, 1077, 1083, 1105, 1085, 1099, 1077>>,
              << <<1047, 1077, 1083, 1077, 1085, 1099, 1077>> >>, FALSE),
    \* Kazaki: 'Казачья'
    Candidate(<<75, 97, 122, 97, 107, 105>>,
              <<1050, 1072, 1079, 1072, 1095, 1100, 1103>>,
              <<>>, FALSE),
    \* Rosta: 'Партия роста'
    Candidate(<<82, 111, 115, 116, 97>>,
              <<1055, 1072, 1088, 1090, 1080, 1103, 32, 1088, 1086, 1089,
                1090, 1072>>,
              <<>>, FALSE),
    \* Patrioty: 'Патриоты России'
    Candidate(<<80, 97, 116, 114, 105, 111, 116, 121>>,
              <<1055, 1072, 1090, 1088, 1080, 1086, 1090, 1099, 32, 1056,
                1086, 1089, 1089, 1080, 1080>>,
              <<>>, FALSE) >>

\* [self.title] + self.alternative_titles
TitlesOf(c) == <<c.title>> \o c.alternative_titles

\* Candidate.is_this: the loop returns at the first title found in the text
RECURSIVE is_this_from(_, _, _)
is_this_from(titles, lower_text, i) ==
    IF i > Len(titles) THEN FALSE
    ELSE IF In(lower(titles[i]), lower_text) THEN TRUE
    ELSE is_this_from(titles, lower_text, i + 1)

is_this(c, text) == is_this_from(TitlesOf(c), lower(text), 1)

(***************************************************************************)
(* HUMAN_CANDIDATE_RE = ^([А-Яа-яЁё][a-яё-]+ ){,5}[А-Яа-яЁё][a-яё-]+$      *)
(***************************************************************************)
\* [А-Яа-яЁё]: U+0410..U+042F, U+0430..U+044F, U+0401, U+0451
ReFirst(c) ==
    \/ c >= 1040 /\ c <= 1071
    \/ c >= 1072 /\ c <= 1103
    \/ c = 1025
    \/ c = 1105

\* [a-яё-]: the range starts at the Latin letter a (U+0061) and ends at the
\* Cyrillic letter ya (U+044F); then U+0451 and the hyphen
ReRest(c) ==
    \/ c >= 97 /\ c <= 1103
    \/ c = 1105
    \/ c = HYPHEN

\* [А-Яа-яЁё][a-яё-]+ against a whole token
ReToken(tok) ==
    /\ Len(tok) >= 2
    /\ ReFirst(tok[1])
    /\ \A i \in 2..Len(tok) : ReRest(tok[i])

\* The pieces of s between single spaces. Neither character class contains
\* the space, so a match of the expression splits the text exactly here.
RECURSIVE SplitSpaces(_, _)
SplitSpaces(s, cur) ==
    IF s = <<>> THEN <<cur>>
    ELSE IF Head(s) = SPACE THEN <<cur>> \o SplitSpaces(Tail(s), <<>>)
    ELSE SplitSpaces(Tail(s), Append(cur, Head(s)))

\* HUMAN_CANDIDATE_RE.match(text) is not None: up to 5 tokens each followed
\* by one space, then one last token
HUMAN_CANDIDATE_RE(text) ==
    LET toks == SplitSpaces(text, <<>>) IN
    /\ Len(toks) <= 5 + 1
    /\ \A i \in 1..Len(toks) : ReToken(toks[i])

\* u'партия'
PARTIYA == <<1087, 1072, 1088, 1090, 1080, 1103>>

\* a scan that keeps the last matching party instead of returning the first
ScanPartiesLast(text, i) ==
    LET M == {j \in i..Len(AVAILABLE_PARTIES) :
                 is_this(AVAILABLE_PARTIES[j], text)} IN
    IF M = {} THEN Raised("ValueError")
    ELSE AVAILABLE_PARTIES[CHOOSE j \in M : \A k \in M : j >= k]

\* the loop over AVAILABLE_PARTIES, then the ValueError
RECURSIVE ScanParties(_, _)
ScanParties(text, i) ==
    IF i > Len(AVAILABLE_PARTIES) THEN Raised("ValueError")
    ELSE IF is_this(AVAILABLE_PARTIES[i], text) THEN AVAILABLE_PARTIES[i]
    ELSE ScanParties(text, i + 1)

parse_candidate_by_text(raw_text) ==
    LET text == strip(raw_text) IN
    IF HUMAN_CANDIDATE_RE(text) /\ ~In(PARTIYA, lower(text))
    THEN Candidate(replace_space(text), text, <<>>, TRUE)
    ELSE ScanParties(text, 1)


(***************************************************************************)
(* Candidate.make_against_candidate                                        *)
(***************************************************************************)
AGAINST_ID    == <<95, 65, 103, 97, 105, 110, 115, 116>>        \* '_Against'
AGAINST_TITLE == <<32, 45, 32, 1055, 1088, 1086, 1090, 1080, 1074>>
                                                                \* ' - Против'

make_against_candidate(c) ==
    Candidate(c.id \o AGAINST_ID, c.title \o AGAINST_TITLE, <<>>, c.is_human)

(***************************************************************************)
(* Numbers.  A table cell is a float; the model writes it as the fraction  *)
(* it is the rounding of, reduced, with 0/0 for nan and 1/0 for inf.       *)
(* Tallies are integers far below 2^24, which np.float32 holds exactly.    *)
(***************************************************************************)
Num(n) == [num |-> n, den |-> 1]
NaN    == [num |-> 0, den |-> 0]
Inf    == [num |-> 1, den |-> 0]

RECURSIVE GCD(_, _)
GCD(a, b) == IF b = 0 THEN a ELSE GCD(b, a % b)

\* an addition that drops its second operand
FAddLeftOnly(a, b) == Num(a.num)

\* elementwise float addition of two tallies
FAdd(a, b) == Num(a.num + b.num)

\* elementwise float division of two tallies: numpy yields nan for 0/0 and
\* inf for x/0 (a RuntimeWarning, not an exception)
FDiv(a, b) ==
    IF b.num = 0 THEN (IF a.num = 0 THEN NaN ELSE Inf)
    ELSE LET g == GCD(a.num, b.num) IN
         [num |-> a.num \div g, den |-> b.num \div g]

(***************************************************************************)
(* TikChildInfo and TikData                                                *)
(***************************************************************************)
TikChildInfo(id, url, uiks) ==
    [kind |-> "TikChildInfo", id |-> id, url |-> url, uiks |-> uiks]

STATIC_ROWS == <<
    \* 'total_izb'
    <<116, 111, 116, 97, 108, 95, 105, 122, 98>>,
    \* 'ballots_recieved'
    <<98, 97, 108, 108, 111, 116, 115, 95, 114, 101, 99, 105,
      101, 118, 101, 100>>,
    \* 'ballots_dosrok'
    <<98, 97, 108, 108, 111, 116, 115, 95, 100, 111, 115, 114,
      111, 107>>,
    \* 'ballots_indoor'
    <<98, 97, 108, 108, 111, 116, 115, 95, 105, 110, 100, 111,
      111, 114>>,
    \* 'ballots_outdoor'
    <<98, 97, 108, 108, 111, 116, 115, 95, 111, 117, 116, 100,
      111, 111, 114>>,
    \* 'ballots_unused'
    <<98, 97, 108, 108, 111, 116, 115, 95, 117, 110, 117, 115,
      101, 100>>,
    \* 'ballots_mobile'
    <<98, 97, 108, 108, 111, 116, 115, 95, 109, 111, 98, 105,
      108, 101>>,
    \* 'ballots_stationar'
    <<98, 97, 108, 108, 111, 116, 115, 95, 115, 116, 97, 116,
      105, 111, 110, 97, 114>>,
    \* 'ballots_not_valid'
    <<98, 97, 108, 108, 111, 116, 115, 95, 110, 111, 116, 95,
      118, 97, 108, 105, 100>>,
    \* 'ballots_valid'
    <<98, 97, 108, 108, 111, 116, 115, 95, 118, 97, 108, 105,
      100>>,
    \* 'ballots_lost'
    <<98, 97, 108, 108, 111, 116, 115, 95, 108, 111, 115, 116>>,
    \* 'ballots_extra'
    <<98, 97, 108, 108, 111, 116, 115, 95, 101, 120, 116, 114,
      97>> >>

SHARE == <<95, 115, 104, 97, 114, 101>>                         \* '_share'

\* STATIC_ROWS.index('ballots_not_valid') and .index('ballots_valid'),
\* counted from 1
BALLOTS_NOT_VALID == 9
BALLOTS_VALID     == 10

\* itertools.chain.from_iterable([(c.id, c.id + '_share') for c in candidates])
RECURSIVE candidate_rows(_)
candidate_rows(candidates) ==
    IF candidates = <<>> THEN <<>>
    ELSE <<Head(candidates).id, Head(candidates).id \o SHARE>>
         \o candidate_rows(Tail(candidates))

\* pd.DataFrame(rows, columns=..., index=...) from an array or a list of
\* rows: the shape must fit both axes, duplicate labels are accepted
DataFrame(values, columns, index) ==
    IF Len(values) = Len(index)
       /\ \A i \in 1..Len(values) : Len(values[i]) = Len(columns)
    THEN [kind |-> "DataFrame", columns |-> columns, index |-> index,
          values |-> values]
    ELSE Raised("ValueError")

\* pd.DataFrame(frame, columns=..., index=...): the frame is reindexed on
\* both axes; an axis equal to the requested one is taken as it is, duplicate
\* labels included, and reindexing an axis with duplicate labels fails
Reindexed(frame, columns, index) ==
    IF frame.columns = columns /\ frame.index = index THEN frame
    ELSE IF \/ (frame.index # index
                  /\ \E i, j \in 1..Len(frame.index) :
                        i # j /\ frame.index[i] = frame.index[j])
            \/ (frame.columns # columns
                  /\ \E i, j \in 1..Len(frame.columns) :
                        i # j /\ frame.columns[i] = frame.columns[j])
         THEN Raised("ValueError")
    ELSE LET RowOf(u) ==
                 IF \E i \in 1..Len(frame.index) : frame.index[i] = u
                 THEN frame.values[CHOOSE i \in 1..Len(frame.index) :
                                       frame.index[i] = u]
                 ELSE [c \in 1..Len(frame.columns) |-> NaN]
             Cell(row, name) ==
                 IF \E c \in 1..Len(frame.columns) : frame.columns[c] = name
                 THEN row[CHOOSE c \in 1..Len(frame.columns) :
                              frame.columns[c] = name]
                 ELSE NaN
         IN [kind |-> "DataFrame", columns |-> columns, index |-> index,
             values |-> [i \in 1..Len(index) |->
                            [c \in 1..Len(columns) |->
                                Cell(RowOf(index[i]), columns[c])]]]

\* TikData.__init__
TikData(id, candidates, uiks, url, data, children) ==
    LET columns == STATIC_ROWS \o candidate_rows(candidates)
        frame == IF data.kind = "DataFrame"
                 THEN Reindexed(data, columns, uiks)
                 ELSE DataFrame(data.values, columns, uiks)
    IN IF IsError(frame) THEN frame
       ELSE [kind |-> "TikData", id |-> id, candidates |-> candidates,
             uiks |-> uiks, url |-> url, data |-> frame,
             children_info |-> children]

\* an array or a list of rows handed to the constructor
Rows(values) == [kind |-> "rows", values |-> values]

\* ndarray.transpose() of a matrix of ncols columns
Transpose(m, ncols) ==
    [s \in 1..ncols |-> [r \in 1..Len(m) |-> m[r][s]]]

\* TikData.from_raw_data; raw_data is a rectangular matrix of ncols columns.
\* With fewer than 10 static rows the lookup of the ballot rows raises
\* IndexError; with ncols different from len(uiks) the assignment into the
\* zeros((2n, len(uiks))) array or, when a single column is broadcast, the
\* np.concatenate after it raises ValueError.
from_raw_data(id, candidates, uiks, url, raw_data, ncols) ==
    LET raw == [r \in 1..Len(raw_data) |->
                   [s \in 1..ncols |-> Num(raw_data[r][s])]]
        nstatic == IF Len(raw) < Len(STATIC_ROWS) THEN Len(raw)
                   ELSE Len(STATIC_ROWS)
        static_data == SubSeq(raw, 1, nstatic)
        candidates_data == SubSeq(raw, nstatic + 1, Len(raw))
    IN
    IF Len(candidates_data) # Len(candidates) THEN Raised("AssertionError")
    ELSE IF nstatic < BALLOTS_VALID THEN Raised("IndexError")
    ELSE IF ncols # Len(uiks) THEN Raised("ValueError")
    ELSE
      LET num_ballots == [s \in 1..ncols |->
                             FAdd(static_data[BALLOTS_VALID][s],
                                  static_data[BALLOTS_NOT_VALID][s])]
          extended_candidates_data ==
              [k \in 1..(2 * Len(candidates)) |->
                  IF k % 2 = 1 THEN candidates_data[(k + 1) \div 2]
                  ELSE [s \in 1..ncols |->
                           FDiv(candidates_data[k \div 2][s], num_ballots[s])]]
          data == Transpose(static_data \o extended_candidates_data, ncols)
      IN TikData(id, candidates, uiks, url, Rows(data), <<>>)

(***************************************************************************)
(* Texts offered to parse_candidate_by_text                                *)
(***************************************************************************)
RegistryTitles ==
    UNION { {TitlesOf(AVAILABLE_PARTIES[i])[j] :
                 j \in 1..Len(TitlesOf(AVAILABLE_PARTIES[i]))} :
            i \in 1..Len(AVAILABLE_PARTIES) }

IVANOV == <<1048, 1074, 1072, 1085, 1086, 1074>>            \* 'Иванов'

OtherWords == {
    IVANOV,
    <<1055, 1077, 1090, 1088>>,                              \* 'Петр'
    <<1076, 1077>>,                                          \* 'де'
    <<1040, 1085, 1085, 1072, 45, 1052, 1072, 1088, 1080, 1103>>,
                                                             \* 'Анна-Мария'
    <<34, 1045, 1044, 1048, 1053, 1040, 1071, 32, 1056, 1054, 1057, 1057,
      1048, 1071, 34>>,                                      \* '"ЕДИНАЯ РОССИЯ"'
    <<1071>>,                                                \* 'Я'
    <<73, 118, 97, 110, 111, 118>>,                          \* 'Ivanov'
    <<8470, 50>>,                                            \* '№2'
    PARTIYA,                                                 \* 'партия'
    <<1103, 1073, 1083, 1086, 1082, 1086>> }                 \* 'яблоко'

Words == RegistryTitles \cup OtherWords

\* n copies of a word separated by single spaces
RECURSIVE Repeat(_, _)
Repeat(w, n) == IF n = 1 THEN w ELSE w \o <<SPACE>> \o Repeat(w, n - 1)

Bodies ==
    Words
    \cup { w1 \o <<SPACE>> \o w2 : w1 \in Words, w2 \in Words }
    \cup { Repeat(IVANOV, n) : n \in 1..MaxTokens }

Prefixes == { <<>>, <<SPACE>>, <<49, 46, 32>> }              \* '', ' ', '1. '
Suffixes == { <<>>, <<SPACE>>, <<10>> }                      \* '', ' ', '\n'

Texts == { pre \o body \o post :
               pre \in Prefixes, body \in Bodies, post \in Suffixes }

(***************************************************************************)
(* The candidate classifier on its own: a text arrives from a page header  *)
(* and is resolved once                                                    *)
(***************************************************************************)
InitParse ==
    /\ candidate_text \in Texts
    /\ parsed = NoCall
    /\ raw_args = NoCall
    /\ tik = NoCall
    /\ datas = <<>>
    /\ root_args = NoCall
    /\ root = NoCall
    /\ tree = NoCall
    /\ d = NoCall
    /\ loaded = NoCall
    /\ NoVotes
    /\ NoScrape

ParseCandidate ==
    /\ parsed = NoCall
    /\ parsed' = parse_candidate_by_text(candidate_text)
    /\ UNCHANGED <<candidate_text, tikVars, dictVars, votesVars, scrapeVars>>

NextParse == ParseCandidate

SpecParse == InitParse /\ [][NextParse]_vars

(***************************************************************************)
(* Claims about the classifier                                             *)
(***************************************************************************)
IsHumanResult(r) == r.kind = "Candidate" /\ r.is_human

IsUpperCyrillic(c) == (c >= 1040 /\ c <= 1071) \/ c = 1025
IsCyrillic(c) == IsUpperCyrillic(c) \/ (c >= 1072 /\ c <= 1103) \/ c = 1105

\* k is the start of an occurrence of sub in s, letter case ignored
OccursAt(sub, s, k) ==
    /\ k + Len(sub) <= Len(s)
    /\ \A j \in 1..Len(sub) : LowerChar(s[k + j]) = LowerChar(sub[j])

OccursIn(sub, s) == \E k \in 0..Len(s) : OccursAt(sub, s, k)

\* the first and last characters that are not whitespace
Trimmed(s) ==
    LET Keep == {i \in 1..Len(s) : ~IsSpace(s[i])} IN
    IF Keep = {} THEN <<>>
    ELSE SubSeq(s, CHOOSE i \in Keep : \A j \in Keep : i <= j,
                   CHOOSE i \in Keep : \A j \in Keep : i >= j)

\* the human-name pattern as the specification words it: 2 to 6 tokens
\* separated by spaces, each a capital Cyrillic letter followed by Cyrillic
\* letters or hyphens, and no 'партия' anywhere
SpecHumanPattern(text) ==
    LET toks == SplitSpaces(text, <<>>) IN
    /\ Len(toks) >= 2
    /\ Len(toks) <= 6
    /\ \A i \in 1..Len(toks) :
          /\ toks[i] # <<>>
          /\ IsUpperCyrillic(toks[i][1])
          /\ \A j \in 2..Len(toks[i]) :
                IsCyrillic(toks[i][j]) \/ toks[i][j] = HYPHEN
    /\ ~OccursIn(PARTIYA, text)

\* C1: a text is classified as a human candidate exactly when its trimmed
\* form is 2 to 6 capitalized Cyrillic tokens without 'партия'; the minted
\* candidate then has the trimmed text as title and the text with spaces
\* replaced by underscores as id.
C1_HumanExactlyOnPattern ==
    parsed.kind # "NoCall" =>
        LET text == Trimmed(candidate_text) IN
        /\ IsHumanResult(parsed) <=> SpecHumanPattern(text)
        /\ IsHumanResult(parsed) =>
              /\ parsed.title = text
              /\ Len(parsed.id) = Len(text)
              /\ \A i \in 1..Len(text) :
                    parsed.id[i] = IF text[i] = SPACE THEN UNDERSCORE
                                   ELSE text[i]

\* the registry entries whose title contains no title of another entry
Unambiguous(i) ==
    \A j \in 1..Len(AVAILABLE_PARTIES) :
        j # i =>
            \A k \in 1..Len(TitlesOf(AVAILABLE_PARTIES[j])) :
                ~OccursIn(TitlesOf(AVAILABLE_PARTIES[j])[k],
                          AVAILABLE_PARTIES[i].title)

\* C2: resolving the title of a registry party whose title is unambiguous
\* returns that party (same id, not human).
C2_RegistryTitleResolvesToItself ==
    \A i \in 1..Len(AVAILABLE_PARTIES) :
        (parsed.kind # "NoCall"
            /\ candidate_text = AVAILABLE_PARTIES[i].title
            /\ Unambiguous(i))
        => /\ parsed.kind = "Candidate"
           /\ CandidateEq(parsed, AVAILABLE_PARTIES[i])
           /\ ~parsed.is_human

\* registry positions whose title or alternative title occurs in the text
MatchingParties(text) ==
    {i \in 1..Len(AVAILABLE_PARTIES) :
        \E k \in 1..Len(TitlesOf(AVAILABLE_PARTIES[i])) :
            OccursIn(TitlesOf(AVAILABLE_PARTIES[i])[k], text)}

\* C3: a text that is not classified as human resolves to the earliest
\* registry party whose title or alternative title occurs in it, letter case
\* ignored, and to a ValueError when there is none.
C3_FirstRegistryMatch ==
    (parsed.kind # "NoCall" /\ ~IsHumanResult(parsed)) =>
        LET M == MatchingParties(Trimmed(candidate_text)) IN
        IF M = {} THEN parsed = Raised("ValueError")
        ELSE parsed = AVAILABLE_PARTIES[CHOOSE i \in M : \A j \in M : i <= j]

\* a text naming two registry parties resolved to the earlier one
C3_Witness ==
    /\ parsed.kind = "Candidate"
    /\ ~parsed.is_human
    /\ Cardinality(MatchingParties(Trimmed(candidate_text))) >= 2


(***************************************************************************)
(* Aggregation: TikData.from_children and build_root_tik                   *)
(***************************************************************************)
\* TikData.is_human_candidates
is_human_candidates(t) ==
    \A i \in 1..Len(t.candidates) : t.candidates[i].is_human

\* child.candidates == candidates: list equality through Candidate.__eq__
CandidatesEq(a, b) ==
    /\ Len(a) = Len(b)
    /\ \A i \in 1..Len(a) : CandidateEq(a[i], b[i])

\* what the loop of from_children has collected
Collected(children_info, uiks) ==
    [kind |-> "Collected", children_info |-> children_info, uiks |-> uiks]

\* the loop with "uiks = child.uiks + uiks" in place of "uiks += child.uiks"
RECURSIVE from_children_loop_prepend(_, _, _, _, _)
from_children_loop_prepend(children, candidates, i, children_info, uiks) ==
    IF i > Len(children) THEN Collected(children_info, uiks)
    ELSE LET child == children[i] IN
         IF child.children_info # <<>> THEN Raised("AssertionError")
         ELSE IF is_human_candidates(child) THEN Raised("AssertionError")
         ELSE IF ~CandidatesEq(child.candidates, candidates)
              THEN Raised("AssertionError")
         ELSE from_children_loop_prepend(children, candidates, i + 1,
                  Append(children_info,
                         TikChildInfo(child.id, child.url, child.uiks)),
                  child.uiks \o uiks)

\* the loop without "assert not child.children_info"
RECURSIVE from_children_loop_remerge(_, _, _, _, _)
from_children_loop_remerge(children, candidates, i, children_info, uiks) ==
    IF i > Len(children) THEN Collected(children_info, uiks)
    ELSE LET child == children[i] IN
         IF is_human_candidates(child) THEN Raised("AssertionError")
         ELSE IF ~CandidatesEq(child.candidates, candidates)
              THEN Raised("AssertionError")
         ELSE from_children_loop_remerge(children, candidates, i + 1,
                  Append(children_info,
                         TikChildInfo(child.id, child.url, child.uiks)),
                  uiks \o child.uiks)

\* the for loop of from_children, from child i on: three assertions, then
\* the provenance entry and the station numbers of the child are appended
RECURSIVE from_children_loop(_, _, _, _, _)
from_children_loop(children, candidates, i, children_info, uiks) ==
    IF i > Len(children) THEN Collected(children_info, uiks)
    ELSE LET child == children[i] IN
         IF child.children_info # <<>> THEN Raised("AssertionError")
         ELSE IF is_human_candidates(child) THEN Raised("AssertionError")
         ELSE IF ~CandidatesEq(child.candidates, candidates)
              THEN Raised("AssertionError")
         ELSE from_children_loop(children, candidates, i + 1,
                  Append(children_info,
                         TikChildInfo(child.id, child.url, child.uiks)),
                  uiks \o child.uiks)

\* pd.concat([child.data for child in children]); the assertion on the
\* candidates has made the columns of all frames the same
RECURSIVE concat(_)
concat(frames) ==
    IF Len(frames) = 1 THEN frames[1]
    ELSE LET rest == concat(Tail(frames)) IN
         [kind |-> "DataFrame", columns |-> frames[1].columns,
          index |-> frames[1].index \o rest.index,
          values |-> frames[1].values \o rest.values]

\* TikData.from_children
from_children(id, url, children) ==
    IF children = <<>> THEN Raised("IndexError")
    ELSE
      LET candidates == children[1].candidates
          collected == from_children_loop(children, candidates, 1, <<>>, <<>>)
      IN
      IF IsError(collected) THEN collected
      ELSE
        LET data == concat([i \in 1..Len(children) |-> children[i].data]) IN
        IF Len(data.values) # Len(collected.uiks)
        THEN Raised("AssertionError")
        ELSE TikData(id, candidates, collected.uiks, url, data,
                     collected.children_info)

\* RootHumanTikData.__init__
RootHumanTikData(id, url, children) ==
    [kind |-> "RootHumanTikData", id |-> id, url |-> url,
     children |-> children]

\* build_root_tik with any() in place of the first all()
build_root_tik_any(tik_id, url, children) ==
    LET all_human == \E i \in 1..Len(children) :
                         is_human_candidates(children[i])
        no_human  == \A i \in 1..Len(children) :
                         ~is_human_candidates(children[i])
    IN IF all_human = no_human THEN Raised("AssertionError")
       ELSE IF all_human THEN RootHumanTikData(tik_id, url, children)
       ELSE from_children(tik_id, url, children)

\* build_root_tik
build_root_tik(tik_id, url, children) ==
    LET all_human == \A i \in 1..Len(children) :
                         is_human_candidates(children[i])
        no_human  == \A i \in 1..Len(children) :
                         ~is_human_candidates(children[i])
    IN IF all_human = no_human THEN Raised("AssertionError")
       ELSE IF all_human THEN RootHumanTikData(tik_id, url, children)
       ELSE from_children(tik_id, url, children)

(***************************************************************************)
(* What a call of build_root_tik writes.  Python lists are objects that    *)
(* append and += change in place, so a name bound to a list of a child     *)
(* would change the child.  A list is named by where it lives.             *)
(***************************************************************************)
\* a list created inside the call
Local(name) == [owner |-> 0, name |-> name]
\* the list held by a field of the k-th child
Field(k, name) == [owner |-> k, name |-> name]

\* the children after list.extend(items) / list.append(item) on that list
Extend(children, list, items) ==
    IF list.owner = 0 THEN children
    ELSE [children EXCEPT ![list.owner][list.name] = @ \o items]

\* the loop of from_children, from child i on, with the lists the names
\* children_info, uiks and data are bound to; it stops at a failing assertion
RECURSIVE from_children_inputs_loop(_, _, _, _, _, _)
from_children_inputs_loop(children, candidates, i, children_info, uiks, data) ==
    IF i > Len(children) THEN children
    ELSE LET child == children[i] IN
         IF child.children_info # <<>> THEN children
         ELSE IF is_human_candidates(child) THEN children
         ELSE IF ~CandidatesEq(child.candidates, candidates) THEN children
         ELSE LET appended == Extend(children, children_info,
                                  <<TikChildInfo(child.id, child.url,
                                                 child.uiks)>>)
                  extended == Extend(appended, uiks, appended[i].uiks)
                  collected == Extend(extended, data, <<extended[i].data>>)
              IN from_children_inputs_loop(collected, candidates, i + 1,
                                           children_info, uiks, data)

\* the children after a from_children that starts with
\* "uiks = children[0].uiks" in place of "uiks = []"
from_children_inputs_shared(children) ==
    IF children = <<>> THEN children
    ELSE from_children_inputs_loop(children, children[1].candidates, 1,
                                   Local("children_info"), Field(1, "uiks"),
                                   Local("data"))

\* the children after TikData.from_children: children_info, uiks and data
\* are bound to new lists; pd.concat and the DataFrame constructor build new
\* frames; TikData.__init__ copies children_info with list()
from_children_inputs(children) ==
    IF children = <<>> THEN children
    ELSE from_children_inputs_loop(children, children[1].candidates, 1,
                                   Local("children_info"), Local("uiks"),
                                   Local("data"))

\* the children after build_root_tik: all() and is_human_candidates only
\* read, and RootHumanTikData.__init__ stores the list it is given
build_root_tik_inputs(children) ==
    LET all_human == \A i \in 1..Len(children) :
                         is_human_candidates(children[i])
        no_human  == \A i \in 1..Len(children) :
                         ~is_human_candidates(children[i])
    IN IF all_human = no_human THEN children
       ELSE IF all_human THEN children
       ELSE from_children_inputs(children)

(***************************************************************************)
(* Serialization                                                           *)
(***************************************************************************)
\* Candidate.to_dict / Candidate.from_dict
CandidateToDict(c) == [id |-> c.id, title |-> c.title, is_human |-> c.is_human]

\* a from_dict that forgets is_human (the constructor default is False)
CandidateFromDictDefault(cd) == Candidate(cd.id, cd.title, <<>>, FALSE)

CandidateFromDict(cd) == Candidate(cd.id, cd.title, <<>>, cd.is_human)

\* TikChildInfo.to_dict / TikChildInfo.from_dict
TikChildInfoToDict(oik) == [id |-> oik.id, url |-> oik.url, uiks |-> oik.uiks]
TikChildInfoFromDict(od) == TikChildInfo(od.id, od.url, od.uiks)

\* TikData.to_dict; data.values.tolist() turns every float32 into the Python
\* float of the same value
TikDataToDict(t) ==
    [id |-> t.id,
     candidates |-> [i \in 1..Len(t.candidates) |->
                        CandidateToDict(t.candidates[i])],
     uiks |-> t.uiks,
     data |-> t.data.values,
     url |-> t.url,
     children_info |-> [i \in 1..Len(t.children_info) |->
                           TikChildInfoToDict(t.children_info[i])]]

\* TikData.from_dict
TikDataFromDict(td) ==
    TikData(td.id,
            [i \in 1..Len(td.candidates) |-> CandidateFromDict(td.candidates[i])],
            td.uiks, td.url, Rows(td.data),
            [i \in 1..Len(td.children_info) |->
                TikChildInfoFromDict(td.children_info[i])])

\* RootHumanTikData.to_dict / RootHumanTikData.from_dict
RootHumanToDict(t) ==
    [id |-> t.id, url |-> t.url,
     children |-> [i \in 1..Len(t.children) |-> TikDataToDict(t.children[i])]]

RootHumanFromDict(rd) ==
    LET loaded_children ==
            [i \in 1..Len(rd.children) |-> TikDataFromDict(rd.children[i])]
    IN IF \E i \in 1..Len(rd.children) : IsError(loaded_children[i])
       THEN Raised("ValueError")
       ELSE RootHumanTikData(rd.id, rd.url, loaded_children)

\* datum.to_dict() on either kind of tree
to_dict(t) ==
    IF t.kind = "TikData" THEN TikDataToDict(t) ELSE RootHumanToDict(t)

\* load_root_tik_data_from_dict
load_root_tik_data_from_dict(rd) ==
    IF "data" \in DOMAIN rd THEN TikDataFromDict(rd) ELSE RootHumanFromDict(rd)

(***************************************************************************)
(* Inputs of the table constructor                                         *)
(***************************************************************************)
\* header rows as the result pages print them
ER_TEXT    == <<34, 1045, 1044, 1048, 1053, 1040, 1071, 32, 1056, 1054, 1057,
                1057, 1048, 1071, 34>>                 \* '"ЕДИНАЯ РОССИЯ"'
KPRF_TEXT  == <<49, 46, 32, 1050, 1055, 1056, 1060>>   \* '1. КПРФ'
HUMAN_TEXT == <<1048, 1074, 1072, 1085, 1086, 1074, 32, 1055, 1077, 1090,
                1088>>                                 \* 'Иванов Петр'

PARTY_A == parse_candidate_by_text(ER_TEXT)
PARTY_B == parse_candidate_by_text(KPRF_TEXT)
PERSON  == parse_candidate_by_text(HUMAN_TEXT)

\* candidate lists of a header table: two party lists in different order, a
\* single person with the derived "against" entry, a person next to a party
CandLists == {
    <<PARTY_A, PARTY_B>>,
    <<PARTY_B, PARTY_A>>,
    <<PERSON, make_against_candidate(PERSON)>>,
    <<PERSON, PARTY_A>> }

\* station numbers of one page, in page order (the digits of 'УИК №n' are
\* written as the number n)
RECURSIVE IncreasingSeqs(_, _)
IncreasingSeqs(lo, len) ==
    IF len = 0 THEN {<<>>}
    ELSE UNION { {<<u>> \o rest : rest \in IncreasingSeqs(u + 1, len - 1)} :
                 u \in lo..MaxUik }

UikLists == UNION { IncreasingSeqs(1, len) : len \in 1..MaxUiks }

\* the title of the i-th commission of a page, and the address of its page
TikId(i) == <<"tik", i>>
UrlOf(id) == <<"url", id>>
ROOT_ID == TikId(0)

\* (valid, not valid) ballots of a station
Ballots == { <<80, 20>>, <<50, 0>>, <<0, 0>> }
\* votes of the first candidate at a station
Votes == { 0, 60 }

\* the matrix of a results table: nrows rows of ncols tallies; the static
\* counters are told apart by row and station
RawData(nrows, ncols, ballots, votes) ==
    [r \in 1..nrows |->
        [s \in 1..ncols |->
            IF r = BALLOTS_VALID THEN ballots[s][1]
            ELSE IF r = BALLOTS_NOT_VALID THEN ballots[s][2]
            ELSE IF r <= Len(STATIC_ROWS) THEN 100 * r + s
            ELSE votes[s] + 10 * (r - Len(STATIC_ROWS) - 1)]]

RawArgs(id, candidates, uiks, nrows, ncols, ballots, votes) ==
    [kind |-> "from_raw_data", id |-> id, candidates |-> candidates,
     uiks |-> uiks, url |-> UrlOf(id),
     raw_data |-> RawData(nrows, ncols, ballots, votes), ncols |-> ncols]

(***************************************************************************)
(* The table constructor on its own: a page body arrives and is built once *)
(***************************************************************************)
InitRaw ==
    /\ \E candidates \in CandLists, uiks \in UikLists :
       \E nrows \in {5, Len(STATIC_ROWS) + Len(candidates) - 1,
                     Len(STATIC_ROWS) + Len(candidates),
                     Len(STATIC_ROWS) + Len(candidates) + 1},
          ncols \in {Len(uiks), Len(uiks) + 1} :
       \E ballots \in [1..ncols -> Ballots], votes \in [1..ncols -> Votes] :
          raw_args = RawArgs(TikId(1), candidates, uiks, nrows, ncols,
                             ballots, votes)
    /\ tik = NoCall
    /\ candidate_text = <<>>
    /\ parsed = NoCall
    /\ datas = <<>>
    /\ root_args = NoCall
    /\ root = NoCall
    /\ tree = NoCall
    /\ d = NoCall
    /\ loaded = NoCall
    /\ NoVotes
    /\ NoScrape

FromRawData ==
    /\ tik = NoCall
    /\ tik' = from_raw_data(raw_args.id, raw_args.candidates, raw_args.uiks,
                            raw_args.url, raw_args.raw_data, raw_args.ncols)
    /\ UNCHANGED <<candVars, raw_args, datas, root_args, root, dictVars,
                   votesVars, scrapeVars>>

NextRaw == FromRawData

SpecRaw == InitRaw /\ [][NextRaw]_vars

\* the candidate rows of a raw matrix: what follows the 12 static rows
NumCandidateRows(raw_data) ==
    IF Len(raw_data) > 12 THEN Len(raw_data) - 12 ELSE 0

\* C9: from_raw_data on a matrix of 12 + len(candidates) rows and len(uiks)
\* columns yields a table whose row for station s holds the 12 static
\* counters unchanged and, per candidate k, the raw count followed by
\* count / (ballots_valid[s] + ballots_not_valid[s]); a zero total gives an
\* undefined share and still a table; a wrong number of candidate rows fails.
C9_SharesFromRawData ==
    tik.kind # "NoCall" =>
        LET raw == raw_args.raw_data
            n == Len(raw_args.candidates)
        IN
        /\ NumCandidateRows(raw) # n => IsError(tik)
        /\ (Len(raw) = 12 + n /\ raw_args.ncols = Len(raw_args.uiks)) =>
              /\ tik.kind = "TikData"
              /\ Len(tik.data.values) = Len(raw_args.uiks)
              /\ \A s \in 1..Len(raw_args.uiks) :
                    LET row == tik.data.values[s]
                        total == raw[10][s] + raw[9][s]
                    IN
                    /\ Len(row) = 12 + 2 * n
                    /\ \A r \in 1..12 : row[r] = [num |-> raw[r][s], den |-> 1]
                    /\ \A k \in 1..n :
                          /\ row[12 + 2 * k - 1] =
                                 [num |-> raw[12 + k][s], den |-> 1]
                          /\ IF total = 0 THEN row[12 + 2 * k].den = 0
                             ELSE /\ row[12 + 2 * k].den > 0
                                  /\ row[12 + 2 * k].num * total =
                                         raw[12 + k][s] * row[12 + 2 * k].den

\* a station with 80 valid and 20 invalid ballots and 60 votes: share 60/100
C9_Witness ==
    /\ tik.kind = "TikData"
    /\ \E s \in 1..Len(raw_args.uiks) :
          /\ raw_args.raw_data[10][s] = 80
          /\ raw_args.raw_data[9][s] = 20
          /\ raw_args.raw_data[13][s] = 60
          /\ tik.data.values[s][14].num * 100 = 60 * tik.data.values[s][14].den
          /\ tik.data.values[s][14].den > 0

(***************************************************************************)
(* A root commission page: the child pages are parsed into tables, the     *)
(* tables are aggregated, the tree is serialized and loaded back           *)
(***************************************************************************)
\* the table of the i-th child page: a well-formed matrix whose votes tell
\* the child and the station apart; station 1 reports no ballots at all
ChildTable(i, candidates, uiks) ==
    from_raw_data(TikId(i), candidates, uiks, UrlOf(TikId(i)),
                  RawData(Len(STATIC_ROWS) + Len(candidates), Len(uiks),
                          [s \in 1..Len(uiks) |->
                              IF uiks[s] = 1 THEN <<0, 0>> ELSE <<80, 20>>],
                          [s \in 1..Len(uiks) |-> 10 * uiks[s] + i]),
                  Len(uiks))

\* the first station of the i-th child: the children list consecutive
\* station numbers, and a child may list again the last station of the
\* child before it
RECURSIVE FirstStation(_, _, _)
FirstStation(lens, overlaps, i) ==
    IF i = 1 THEN 1
    ELSE FirstStation(lens, overlaps, i - 1) + lens[i - 1] - overlaps[i]

StationsOf(lens, overlaps, i) ==
    [j \in 1..lens[i] |-> FirstStation(lens, overlaps, i) + j - 1]

\* the child pages of a root page: every child shows the usual candidate list
\* of the race, except possibly one child that shows another list
Init ==
    /\ \E n \in 0..MaxChildren :
       \E lens \in [1..n -> 1..MaxUiks], overlaps \in [1..n -> {0, 1}] :
       \E usual \in CandLists, other \in CandLists, odd \in 1..MaxChildren :
          /\ n > 0 => overlaps[1] = 0
          /\ datas = [i \in 1..n |->
                         ChildTable(i, IF i = odd THEN other ELSE usual,
                                    StationsOf(lens, overlaps, i))]
    /\ candidate_text = <<>>
    /\ parsed = NoCall
    /\ raw_args = NoCall
    /\ tik = NoCall
    /\ root_args = NoCall
    /\ root = NoCall
    /\ tree = NoCall
    /\ d = NoCall
    /\ loaded = NoCall
    /\ NoVotes
    /\ NoScrape

\* RootTikPageParser.parse_by_child_tiks: build_root_tik(tik_id, url, datas)
BuildRootTik ==
    /\ root = NoCall
    /\ root_args' = [kind |-> "build_root_tik", tik_id |-> ROOT_ID,
                     url |-> UrlOf(ROOT_ID), children |-> datas]
    /\ root' = build_root_tik(ROOT_ID, UrlOf(ROOT_ID), datas)
    /\ datas' = build_root_tik_inputs(datas)
    /\ UNCHANGED <<candVars, raw_args, tik, dictVars, votesVars, scrapeVars>>

\* a merged table is collected into a list of children in its turn: alone,
\* in place of the first child or in place of the last
MergeAgain(place) ==
    /\ root.kind = "TikData"
    /\ tree = NoCall
    /\ \A i \in 1..Len(datas) : datas[i].children_info = <<>>
    /\ datas' = CASE place = "alone" -> <<root>>
                  [] place = "first" -> <<root>> \o Tail(datas)
                  [] place = "last"  ->
                         SubSeq(datas, 1, Len(datas) - 1) \o <<root>>
    /\ root' = NoCall
    /\ root_args' = NoCall
    /\ UNCHANGED <<candVars, raw_args, tik, dictVars, votesVars, scrapeVars>>

\* the trees a votes record can hold: the aggregate of a page, or the single
\* table of a page without child commissions
IsTree(t) == t.kind \in {"TikData", "RootHumanTikData"}

\* MunicipalVotes.to_dict: datum.to_dict()
ToDict(t) ==
    /\ tree = NoCall
    /\ IsTree(t)
    /\ tree' = t
    /\ d' = to_dict(t)
    /\ UNCHANGED <<candVars, tikVars, loaded, votesVars, scrapeVars>>

\* MunicipalVotes.from_dict: load_root_tik_data_from_dict(datum)
Load ==
    /\ tree # NoCall
    /\ loaded = NoCall
    /\ loaded' = load_root_tik_data_from_dict(d)
    /\ UNCHANGED <<candVars, tikVars, tree, d, votesVars, scrapeVars>>

Next ==
    \/ BuildRootTik
    \/ \E place \in {"alone", "first", "last"} : MergeAgain(place)
    \/ \E t \in {root} \cup (IF Len(datas) = 1 THEN {datas[1]} ELSE {}) :
          ToDict(t)
    \/ Load

Spec == Init /\ [][Next]_vars

(***************************************************************************)
(* Claims about the aggregation                                            *)
(***************************************************************************)
Built == root_args.kind = "build_root_tik"

AllHuman(t) == \A k \in 1..Len(t.candidates) : t.candidates[k].is_human
AllParty(t) == \A k \in 1..Len(t.candidates) : ~t.candidates[k].is_human

\* C4: a list with at least one child whose candidates are all human and at
\* least one child whose candidates are all parties makes build_root_tik
\* fail with an assertion error; no tree is returned for it.
C4_MixedChildrenFail ==
    Built =>
        LET kids == root_args.children IN
        ((\E i \in 1..Len(kids) : AllHuman(kids[i]))
            /\ (\E i \in 1..Len(kids) : AllParty(kids[i])))
        => root = Raised("AssertionError")

\* a human-only child and a party-only child were aggregated and refused
C4_Witness ==
    /\ Built
    /\ Len(root_args.children) >= 2
    /\ \E i, j \in 1..Len(root_args.children) :
          AllHuman(root_args.children[i]) /\ AllParty(root_args.children[j])
    /\ IsError(root)

\* C5: the human branch is taken only when every child has only human
\* candidates, the merge branch only when no child has any human candidate,
\* and every other list of children fails.
C5_BranchesByCandidateKind ==
    Built =>
        LET kids == root_args.children
            all_human == \A i \in 1..Len(kids) : AllHuman(kids[i])
            all_party == \A i \in 1..Len(kids) : AllParty(kids[i])
        IN
        /\ root.kind = "RootHumanTikData" => all_human
        /\ root.kind = "TikData" => all_party
        /\ (~all_human /\ ~all_party) => IsError(root)
        /\ (all_human /\ all_party) => IsError(root)

\* the leaves of a merge: party tables over one candidate list
SameIds(a, b) ==
    /\ Len(a) = Len(b)
    /\ \A k \in 1..Len(a) : a[k].id = b[k].id

RECURSIVE Flatten(_)
Flatten(seqs) ==
    IF seqs = <<>> THEN <<>> ELSE Head(seqs) \o Flatten(Tail(seqs))

DisjointUiks(kids) ==
    \A i, j \in 1..Len(kids) :
        i # j => \A a \in 1..Len(kids[i].uiks), b \in 1..Len(kids[j].uiks) :
                     kids[i].uiks[a] # kids[j].uiks[b]

Mergeable(kids) ==
    /\ kids # <<>>
    /\ \A i \in 1..Len(kids) :
          /\ kids[i].children_info = <<>>
          /\ AllParty(kids[i])
          /\ SameIds(kids[i].candidates, kids[1].candidates)

\* C6: merging n party children over one candidate list with pairwise
\* disjoint stations yields one table: stations and rows of the children in
\* input order, the candidates of the first child, one provenance entry
\* (id, url, uiks) per child in order.
C6_MergeConcatenates ==
    (Built /\ Mergeable(root_args.children)
           /\ DisjointUiks(root_args.children)) =>
        LET kids == root_args.children IN
        /\ root.kind = "TikData"
        /\ root.uiks = Flatten([i \in 1..Len(kids) |-> kids[i].uiks])
        /\ root.data.index = root.uiks
        /\ root.data.values =
               Flatten([i \in 1..Len(kids) |-> kids[i].data.values])
        /\ root.candidates = kids[1].candidates
        /\ Len(root.children_info) = Len(kids)
        /\ \A i \in 1..Len(kids) :
              /\ root.children_info[i].id = kids[i].id
              /\ root.children_info[i].url = kids[i].url
              /\ root.children_info[i].uiks = kids[i].uiks

\* three party children with 2, 1 and 2 disjoint stations were merged into
\* one table of 5 rows
C6_Witness ==
    /\ Built
    /\ Len(root_args.children) = 3
    /\ Len(root_args.children[1].uiks) = 2
    /\ Len(root_args.children[2].uiks) = 1
    /\ Len(root_args.children[3].uiks) = 2
    /\ DisjointUiks(root_args.children)
    /\ root.kind = "TikData"
    /\ Len(root.data.values) = 5
    /\ Len(root.children_info) = 3

\* C7: outside the human branch the aggregation fails, yielding no table,
\* when a child carries children_info or when the candidate ids of a child
\* differ from those of the first child; so a merged table is never merged
\* again.
C7_NoMergeOfMergedOrDifferent ==
    Built =>
        LET kids == root_args.children IN
        ((\E i \in 1..Len(kids) : kids[i].children_info # <<>>)
            \/ (\E i \in 1..Len(kids) :
                   ~SameIds(kids[i].candidates, kids[1].candidates)))
        => \/ IsError(root)
           \/ /\ root.kind = "RootHumanTikData"
              /\ \A i \in 1..Len(kids) : AllHuman(kids[i])

\* a merged table was handed to the aggregator again and refused
C7_Witness ==
    /\ Built
    /\ \E i \in 1..Len(root_args.children) :
          root_args.children[i].children_info # <<>>
    /\ root = Raised("AssertionError")

\* the shape every table is to have: distinct stations, one row per station
\* and the columns its candidates determine
WellFormed(t) ==
    /\ \A i, j \in 1..Len(t.uiks) : i # j => t.uiks[i] # t.uiks[j]
    /\ Len(t.data.values) = Len(t.uiks)
    /\ t.data.index = t.uiks
    /\ Len(t.data.columns) = 12 + 2 * Len(t.candidates)
    /\ SubSeq(t.data.columns, 1, 12) = STATIC_ROWS
    /\ \A k \in 1..Len(t.candidates) :
          /\ t.data.columns[12 + 2 * k - 1] = t.candidates[k].id
          /\ t.data.columns[12 + 2 * k] = t.candidates[k].id \o SHARE

\* C8: every table from from_raw_data, from_children or from_dict has
\* pairwise distinct stations, one data row per station in station order,
\* and the 12 static columns followed by (id, id_share) per candidate.
C8_TablesWellFormed ==
    /\ \A i \in 1..Len(datas) : WellFormed(datas[i])
    /\ root.kind = "TikData" => WellFormed(root)
    /\ loaded.kind = "TikData" => WellFormed(loaded)

\* every field of the table is what it was
SameFields(before, after) ==
    /\ after.id = before.id
    /\ after.url = before.url
    /\ after.candidates = before.candidates
    /\ after.uiks = before.uiks
    /\ after.data = before.data
    /\ after.children_info = before.children_info

\* C13: after build_root_tik, whether it returned or failed, every child
\* has the id, url, candidates, uiks, data and children_info it had before
\* the call; a human root holds exactly the children it was given, in order,
\* each with its own rows.
C13_InputsNotModified ==
    Built =>
        LET kids == root_args.children IN
        /\ Len(datas) = Len(kids)
        /\ \A i \in 1..Len(kids) : SameFields(kids[i], datas[i])
        /\ root.kind = "RootHumanTikData" =>
              /\ root.children = kids
              /\ \A i \in 1..Len(kids) :
                    /\ root.children[i].uiks = kids[i].uiks
                    /\ Len(root.children[i].data.values) = Len(kids[i].uiks)

\* three party children were merged into one table
C13_Witness ==
    /\ Built
    /\ Len(root_args.children) = 3
    /\ root.kind = "TikData"
    /\ Len(root.uiks) > Len(datas[1].uiks)
    /\ datas = root_args.children

(***************************************************************************)
(* Claims about the serialization                                          *)
(***************************************************************************)
SameCandidates(a, b) ==
    /\ Len(a) = Len(b)
    /\ \A k \in 1..Len(a) :
          /\ a[k].id = b[k].id
          /\ a[k].title = b[k].title
          /\ a[k].is_human = b[k].is_human

SameChildrenInfo(a, b) ==
    /\ Len(a) = Len(b)
    /\ \A k \in 1..Len(a) :
          /\ a[k].id = b[k].id
          /\ a[k].url = b[k].url
          /\ a[k].uiks = b[k].uiks

SameTable(a, b) ==
    /\ b.kind = "TikData"
    /\ a.id = b.id
    /\ a.url = b.url
    /\ a.uiks = b.uiks
    /\ SameCandidates(a.candidates, b.candidates)
    /\ a.data.values = b.data.values
    /\ a.data.index = b.data.index
    /\ a.data.columns = b.data.columns
    /\ SameChildrenInfo(a.children_info, b.children_info)

\* C10: loading the dict of a tree gives a tree of the same kind (the 'data'
\* key is there exactly for a table) with the same id, url, stations,
\* candidates, data, children_info and, for a human root, the same children
\* in the same order.
C10_RoundTrip ==
    /\ tree.kind # "NoCall" =>
          ("data" \in DOMAIN d) = (tree.kind = "TikData")
    /\ loaded.kind # "NoCall" =>
          IF tree.kind = "TikData" THEN SameTable(tree, loaded)
          ELSE /\ loaded.kind = "RootHumanTikData"
               /\ loaded.id = tree.id
               /\ loaded.url = tree.url
               /\ Len(loaded.children) = Len(tree.children)
               /\ \A i \in 1..Len(tree.children) :
                     SameTable(tree.children[i], loaded.children[i])

\* a merged table and a human root with two children have been loaded back
C10_Witness ==
    /\ loaded.kind = "RootHumanTikData"
    /\ Len(loaded.children) >= 2
    /\ loaded.children[1].candidates[1].is_human
    /\ loaded.children[2].uiks = tree.children[2].uiks

(***************************************************************************)
(* MunicipalVotes                                                          *)
(***************************************************************************)
\* Python values of the town argument: None or a unicode string
None == [kind |-> "None"]
Unicode(text) == [kind |-> "unicode", text |-> text]

\* truth value of "town" in "town or tik_id"
Truthy(v) == v.kind = "unicode" /\ v.text # <<>>

\* MunicipalVotes.__init__; list(votes_data) is a new list with the elements
\* of the argument in order
MunicipalVotes(id, town, tik_id, date, url, votes_data) ==
    [kind |-> "MunicipalVotes", id |-> id, tik_id |-> tik_id,
     town |-> IF Truthy(town) THEN town ELSE tik_id,
     date |-> date, url |-> url, votes_data |-> votes_data]

\* an add_datum that skips a tree the record already holds
add_datum_once(self, votes_datum) ==
    IF \E i \in 1..Len(self.votes_data) : self.votes_data[i] = votes_datum
    THEN self
    ELSE [self EXCEPT !.votes_data = Append(@, votes_datum)]

\* MunicipalVotes.add_datum
add_datum(self, votes_datum) ==
    [self EXCEPT !.votes_data = Append(@, votes_datum)]

(***************************************************************************)
(* A votes record on its own: it is constructed with a list of trees, as   *)
(* from_dict and parse_meta construct it, and trees are added to it        *)
(***************************************************************************)
PARTY_LIST == <<PARTY_A, PARTY_B>>
HUMAN_LIST == <<PERSON, make_against_candidate(PERSON)>>

\* the trees of three race pages: a page without child commissions, a page
\* with two party children, a page with two children of a one-person race
TABLE_TREE  == ChildTable(1, PARTY_LIST, <<1, 2>>)
MERGED_TREE == build_root_tik(ROOT_ID, UrlOf(ROOT_ID),
                   <<ChildTable(1, PARTY_LIST, <<1>>),
                     ChildTable(2, PARTY_LIST, <<2>>)>>)
HUMAN_TREE  == build_root_tik(ROOT_ID, UrlOf(ROOT_ID),
                   <<ChildTable(1, HUMAN_LIST, <<1>>),
                     ChildTable(2, HUMAN_LIST, <<2>>)>>)

Trees == {TABLE_TREE, MERGED_TREE, HUMAN_TREE}

RECURSIVE TreeLists(_)
TreeLists(len) ==
    IF len = 0 THEN {<<>>}
    ELSE {Append(l, t) : l \in TreeLists(len - 1), t \in Trees}

\* 'Выборы №' and the number of the vote page
VoteTitle(i) == <<1042, 1099, 1073, 1086, 1088, 1099, 32, 8470, 48 + i>>
\* 'ТИК' and the number of the vote page
TikTitle(i) == <<1058, 1048, 1050, 32, 48 + i>>
\* 'Дубна'
TOWN == <<1044, 1091, 1073, 1085, 1072>>
\* the town of a row of the votes list: absent, empty or a title
Towns == {None, Unicode(<<>>), Unicode(TOWN)}

VoteDate == [year |-> 2019, month |-> 9, day |-> 8]

InitVotes ==
    /\ \E town \in Towns, len \in 0..MaxInitial :
       \E votes_data \in TreeLists(len) :
          init_args = [kind |-> "MunicipalVotes", id |-> VoteTitle(1),
                       town |-> town, tik_id |-> Unicode(TikTitle(1)),
                       date |-> VoteDate, url |-> UrlOf(VoteTitle(1)),
                       votes_data |-> votes_data]
    /\ container = NoCall
    /\ added = <<>>
    /\ candidate_text = <<>>
    /\ parsed = NoCall
    /\ raw_args = NoCall
    /\ tik = NoCall
    /\ datas = <<>>
    /\ root_args = NoCall
    /\ root = NoCall
    /\ tree = NoCall
    /\ d = NoCall
    /\ loaded = NoCall
    /\ NoScrape

Construct ==
    /\ container = NoCall
    /\ container' = MunicipalVotes(init_args.id, init_args.town,
                                   init_args.tik_id, init_args.date,
                                   init_args.url, init_args.votes_data)
    /\ UNCHANGED <<candVars, tikVars, dictVars, init_args, added, scrapeVars>>

AddDatum(votes_datum) ==
    /\ container.kind = "MunicipalVotes"
    /\ Len(added) < MaxAdds
    /\ container' = add_datum(container, votes_datum)
    /\ added' = Append(added, votes_datum)
    /\ UNCHANGED <<candVars, tikVars, dictVars, init_args, scrapeVars>>

NextVotes ==
    \/ Construct
    \/ \E votes_datum \in Trees : AddDatum(votes_datum)

SpecVotes == InitVotes /\ [][NextVotes]_vars

\* C11: after add_datum(t1), ..., add_datum(tn) on a record constructed with
\* the list L, votes_data is L followed by t1..tn in call order, nothing
\* removed, reordered, merged or deduplicated, and id, town, tik_id, date and
\* url are what the constructor set.
C11_VotesDataAppendOnly ==
    container.kind = "MunicipalVotes" =>
        /\ container.votes_data = init_args.votes_data \o added
        /\ Len(container.votes_data) =
               Len(init_args.votes_data) + Len(added)
        /\ container.id = init_args.id
        /\ container.tik_id = init_args.tik_id
        /\ container.date = init_args.date
        /\ container.url = init_args.url
        /\ container.town =
               IF init_args.town \in {None, Unicode(<<>>)}
               THEN init_args.tik_id ELSE init_args.town

\* a record constructed with one tree got that same tree added twice more
C11_Witness ==
    /\ container.kind = "MunicipalVotes"
    /\ Len(init_args.votes_data) = 1
    /\ Len(added) = 2
    /\ added[1] = added[2]
    /\ added[1] = init_args.votes_data[1]
    /\ Len(container.votes_data) = 3

(***************************************************************************)
(* The scraper: result pages, race pages, vote pages, the votes list       *)
(***************************************************************************)
ZA           == <<1079, 1072>>                                 \* 'за'
PROTIV       == <<1087, 1088, 1086, 1090, 1080, 1074>>         \* 'против'
UNKNOWN_TEXT == <<8470, 50>>                                   \* '№2'

\* a parsed list
List(items) == [kind |-> "list", items |-> items]

\* the first error among the results of a loop, in loop order
FirstError(results) ==
    results[CHOOSE i \in 1..Len(results) :
                /\ IsError(results[i])
                /\ \A j \in 1..(i - 1) : ~IsError(results[j])]

\* TikResultsPageParser.parse_candidates_from_header_table: a header whose
\* first row has no number is a single candidate followed by 'за' and
\* 'против'; otherwise every row is a candidate
parse_candidates_from_header_table(header) ==
    IF header.only_one
    THEN IF Len(header.texts) # 3 THEN Raised("AssertionError")
         ELSE IF lower(strip(header.texts[2])) # ZA
              THEN Raised("AssertionError")
         ELSE IF lower(strip(header.texts[3])) # PROTIV
              THEN Raised("AssertionError")
         ELSE LET candidate == parse_candidate_by_text(strip(header.texts[1]))
              IN IF IsError(candidate) THEN candidate
                 ELSE List(<<candidate, make_against_candidate(candidate)>>)
    ELSE LET candidates == [i \in 1..Len(header.texts) |->
                               parse_candidate_by_text(strip(header.texts[i]))]
         IN IF \E i \in 1..Len(candidates) : IsError(candidates[i])
            THEN FirstError(candidates)
            ELSE List(candidates)

\* TikResultsPageParser.parse_uiks_tables
parse_uiks_tables(tik_id, url, tables) ==
    LET candidates == parse_candidates_from_header_table(tables.header) IN
    IF IsError(candidates) THEN candidates
    ELSE from_raw_data(tik_id, candidates.items, tables.uiks, url,
                       tables.raw_data, Len(tables.uiks))

\* RootTikPageParser.parse_by_child_tiks
parse_by_child_tiks(page) ==
    LET parsed_children ==
            [i \in 1..Len(page.child_tiks) |->
                parse_uiks_tables(page.child_tiks[i].title,
                                  page.child_tiks[i].url,
                                  page.child_tiks[i].tables)]
    IN IF \E i \in 1..Len(parsed_children) : IsError(parsed_children[i])
       THEN FirstError(parsed_children)
       ELSE build_root_tik(page.title, page.url, parsed_children)

\* RootTikPageParser.parse: a page without the go_reg form is parsed as a
\* results page of its own
RootTikPageParser_parse(page) ==
    IF ~page.has_form
    THEN parse_uiks_tables(page.title, page.url, page.tables)
    ELSE parse_by_child_tiks(page)

\* the tables of a results page: header rows and a matrix of the 12 static
\* rows, the rows of the candidates and extra_rows more
Tables(i, only_one, texts, uiks, extra_rows) ==
    [header |-> [only_one |-> only_one, texts |-> texts],
     uiks |-> uiks,
     raw_data |-> RawData(Len(STATIC_ROWS) + 2 + extra_rows, Len(uiks),
                          [s \in 1..Len(uiks) |-> <<80, 20>>],
                          [s \in 1..Len(uiks) |-> 10 * uiks[s] + i])]

PartyTables(i, uiks) == Tables(i, FALSE, <<ER_TEXT, KPRF_TEXT>>, uiks, 0)
HumanTables(i, uiks) == Tables(i, TRUE, <<HUMAN_TEXT, ZA, PROTIV>>, uiks, 0)

ChildTik(i, tables) ==
    [title |-> TikId(i), url |-> UrlOf(TikId(i)), tables |-> tables]

FlatPage(i, tables) ==
    [title |-> TikId(i), url |-> UrlOf(TikId(i)), has_form |-> FALSE,
     child_tiks |-> <<>>, tables |-> tables]

RootPage(i, child_tiks) ==
    [title |-> TikId(i), url |-> UrlOf(TikId(i)), has_form |-> TRUE,
     child_tiks |-> child_tiks, tables |-> NoCall]

\* race pages that parse: a page of its own, party children, human children
GoodRace(k, i) ==
    CASE k = 0 -> FlatPage(i, PartyTables(i, <<1, 2>>))
      [] k = 1 -> RootPage(i, <<ChildTik(i + 1, PartyTables(i + 1, <<1>>)),
                               ChildTik(i + 2, PartyTables(i + 2, <<2>>))>>)
      [] k = 2 -> RootPage(i, <<ChildTik(i + 1, HumanTables(i + 1, <<1>>)),
                               ChildTik(i + 2, HumanTables(i + 2, <<2>>))>>)

FaultKinds == {"unknown candidate", "candidate rows", "mixed children"}

\* race pages that fail: a header text that is no candidate, a matrix with
\* one candidate row too many, a human child next to a party child
FaultRace(kind, i) ==
    CASE kind = "unknown candidate" ->
             FlatPage(i, Tables(i, FALSE, <<ER_TEXT, UNKNOWN_TEXT>>,
                                <<1, 2>>, 0))
      [] kind = "candidate rows" ->
             FlatPage(i, Tables(i, FALSE, <<ER_TEXT, KPRF_TEXT>>,
                                <<1, 2>>, 1))
      [] kind = "mixed children" ->
             RootPage(i, <<ChildTik(i + 1, HumanTables(i + 1, <<1>>)),
                           ChildTik(i + 2, PartyTables(i + 2, <<2>>))>>)

NoFault == [kind |-> "none", page |-> 0, race |-> 0]

\* a row of the votes list with what its vote page shows
VoteInfo(p, races) ==
    [town |-> IF p % 2 = 1 THEN Unicode(TOWN) ELSE None,
     url |-> UrlOf(VoteTitle(p)),
     votes_title |-> VoteTitle(p),
     tik_title |-> Unicode(TikTitle(p)),
     votes_date |-> VoteDate,
     result_pages |-> races]

(***************************************************************************)
(* Saving: MunicipalVotes.to_dict and the file name of main                *)
(***************************************************************************)
\* the decimal digits of n, zero padded to width characters
RECURSIVE Digits(_, _)
Digits(n, width) ==
    IF width = 0 THEN <<>>
    ELSE Append(Digits(n \div 10, width - 1), 48 + (n % 10))

\* date.strftime('%Y-%m-%d')
strftime(date) ==
    Digits(date.year, 4) \o <<HYPHEN>> \o Digits(date.month, 2)
        \o <<HYPHEN>> \o Digits(date.day, 2)

\* MunicipalVotes.to_dict
MunicipalVotesToDict(self) ==
    [id |-> self.id, town |-> self.town, tik_id |-> self.tik_id,
     date |-> strftime(self.date), url |-> self.url,
     votes_data |-> [i \in 1..Len(self.votes_data) |->
                        to_dict(self.votes_data[i])]]

\* '{}_{}.json'.format(id.replace(' ', '_').replace('№', 'N'), date)
FileName(vote) ==
    [i \in 1..Len(vote.id) |->
        IF vote.id[i] = SPACE THEN UNDERSCORE
        ELSE IF vote.id[i] = 8470 THEN 78 ELSE vote.id[i]]
    \o <<UNDERSCORE>> \o strftime(vote.date)
    \o <<46, 106, 115, 111, 110>>

\* open(path, 'w') and json.dump: a file of that name is replaced
Written(fs, name, content) ==
    {f \in fs : f.name # name} \cup {[name |-> name, content |-> content]}

(***************************************************************************)
(* main: VotesListParser.parse walks the vote pages, TikVotesPageParser    *)
(* .parse walks the race pages of each, then main saves every record.      *)
(* No frame of the walk has a try statement.                               *)
(***************************************************************************)
\* the votes list: every race page parses, except possibly one
InitScrape ==
    /\ \E n \in 0..MaxPages :
       \E lens \in [1..n -> 1..MaxRaces] :
       \E fault \in {NoFault}
                    \cup [kind : FaultKinds, page : 1..MaxPages,
                          race : 1..MaxRaces] :
          /\ fault # NoFault =>
                 fault.page <= n /\ fault.race <= lens[fault.page]
          /\ vote_infos =
                 [p \in 1..n |->
                     VoteInfo(p,
                         [r \in 1..lens[p] |->
                             IF fault.page = p /\ fault.race = r
                             THEN FaultRace(fault.kind, 100 * p + 10 * r)
                             ELSE GoodRace((p + r) % 3, 100 * p + 10 * r)])]
    /\ dry \in BOOLEAN
    /\ position = [page |-> 1, race |-> 1]
    /\ result = <<>>
    /\ status = "parsing"
    /\ files = {}
    /\ log = <<>>
    /\ NoVotes
    /\ candidate_text = <<>>
    /\ parsed = NoCall
    /\ raw_args = NoCall
    /\ tik = NoCall
    /\ datas = <<>>
    /\ root_args = NoCall
    /\ root = NoCall
    /\ tree = NoCall
    /\ d = NoCall
    /\ loaded = NoCall

\* TikVotesPageParser.parse_meta: the record of the vote page is constructed
ParseMeta ==
    /\ status = "parsing"
    /\ container = NoCall
    /\ position.page <= Len(vote_infos)
    /\ LET info == vote_infos[position.page] IN
       /\ init_args' = [kind |-> "MunicipalVotes", id |-> info.votes_title,
                        town |-> info.town, tik_id |-> info.tik_title,
                        date |-> info.votes_date, url |-> info.url,
                        votes_data |-> <<>>]
       /\ container' = MunicipalVotes(info.votes_title, info.town,
                                      info.tik_title, info.votes_date,
                                      info.url, <<>>)
    /\ added' = <<>>
    /\ position' = [position EXCEPT !.race = 1]
    /\ UNCHANGED <<candVars, tikVars, dictVars, vote_infos, dry, result,
                   status, files, log>>

\* votes.add_datum(RootTikPageParser.parse(child.url)); an exception leaves
\* parse, the list comprehension of VotesListParser.parse and main, and the
\* record and the list they were building go with their frames
ParseRace ==
    /\ status = "parsing"
    /\ container # NoCall
    /\ position.race <= Len(vote_infos[position.page].result_pages)
    /\ LET outcome == RootTikPageParser_parse(
                          vote_infos[position.page].result_pages[position.race])
       IN
       /\ log' = Append(log, [page |-> position.page, race |-> position.race,
                              outcome |-> outcome])
       /\ IF IsError(outcome)
          THEN /\ status' = "raised"
               /\ container' = NoCall
               /\ result' = <<>>
               /\ UNCHANGED <<added, position>>
          ELSE /\ container' = add_datum(container, outcome)
               /\ added' = Append(added, outcome)
               /\ position' = [position EXCEPT !.race = @ + 1]
               /\ UNCHANGED <<status, result>>
    /\ UNCHANGED <<candVars, tikVars, dictVars, init_args, vote_infos, dry,
                   files>>

\* TikVotesPageParser.parse returns the record into the list comprehension
FinishPage ==
    /\ status = "parsing"
    /\ container # NoCall
    /\ position.race > Len(vote_infos[position.page].result_pages)
    /\ result' = Append(result, container)
    /\ container' = NoCall
    /\ position' = [page |-> position.page + 1, race |-> 1]
    /\ UNCHANGED <<candVars, tikVars, dictVars, init_args, added, vote_infos,
                   dry, status, files, log>>

\* VotesListParser.parse returns to main, which stops here on a dry run
Return ==
    /\ status = "parsing"
    /\ container = NoCall
    /\ position.page > Len(vote_infos)
    /\ status' = IF dry \/ result = <<>> THEN "done" ELSE "saving"
    /\ position' = [page |-> 1, race |-> 1]
    /\ UNCHANGED <<candVars, tikVars, dictVars, votesVars, vote_infos, dry,
                   result, files, log>>

\* one turn of the saving loop of main
Save ==
    /\ status = "saving"
    /\ LET vote == result[position.page] IN
       files' = Written(files, FileName(vote), MunicipalVotesToDict(vote))
    /\ position' = [position EXCEPT !.page = @ + 1]
    /\ status' = IF position.page = Len(result) THEN "done" ELSE "saving"
    /\ UNCHANGED <<candVars, tikVars, dictVars, votesVars, vote_infos, dry,
                   result, log>>

NextScrape ==
    \/ ParseMeta
    \/ ParseRace
    \/ FinishPage
    \/ Return
    \/ Save

SpecScrape == InitScrape /\ [][NextScrape]_vars

(***************************************************************************)
(* Claims about the scraper                                                *)
(***************************************************************************)
\* the tree is in a saved file, or in the list main was handed
Available(t) ==
    \/ \E f \in files :
          \E i \in 1..Len(f.content.votes_data) :
              f.content.votes_data[i] = to_dict(t)
    \/ /\ status \in {"saving", "done"}
       /\ \E v \in 1..Len(result) :
             \E i \in 1..Len(result[v].votes_data) :
                 result[v].votes_data[i] = t

Failed(e) == IsError(e.outcome)

\* C12: when a race page fails with a fatal error, no tree of that race is
\* in the output, and the trees of the vote pages completed before it are
\* still in what is returned or saved.
C12_FailureKeepsCompletedPages ==
    status = "raised" =>
        \A k \in 1..Len(log) :
            Failed(log[k]) =>
                /\ \A f \in files :
                      \A i \in 1..Len(f.content.votes_data) :
                          f.content.votes_data[i].url
                              # vote_infos[log[k].page]
                                    .result_pages[log[k].race].url
                /\ \A j \in 1..Len(log) :
                      log[j].page < log[k].page => Available(log[j].outcome)

====
